---- MODULE Spec2Model ----
(***************************************************************************)
(* Model of cdt/causality/graph/GIES.py: the GIES wrapper object (score,   *)
(* verbose, argument table), its three entry points, and _run_gies with    *)
(* its workspace directory, its try/except cleanup and the relabelling of  *)
(* the result matrix.                                                      *)
(*                                                                         *)
(* Python indices are kept 0-based: a sequence of N things is a function   *)
(* on 0..N-1.  A workspace path '/tmp/cdt_gies<id>/' is modelled by its    *)
(* id, a positive integer; 0 stands for the constructor's                  *)
(* '/tmp/cdt_gies/'.                                                       *)
(***************************************************************************)
EXTENDS Integers, FiniteSets, Sequences, TLC

VARIABLES score, verbose, arguments, fs, nextId, ncalls, warnings, pc, frame

vars == <<score, verbose, arguments, fs, nextId, ncalls, warnings, pc, frame>>

\* ------------------------------------------------------------------ bounds

\* Largest number of dataset columns in the exhaustive input space.
MaxCols == 2

\* Largest number of invocations in one behaviour.
MaxCalls == 2

\* ------------------------------------------------------- threads, objects

Threads == {1, 2}

Objects == {1, 2}

\* The thread that receives KeyboardInterrupt (Python's main thread).
MainThreads == {1}

\* ------------------------------------------------------------ plain data

Idx(n) == 0 .. (n - 1)

Width(f) == Cardinality(DOMAIN f)

\* A missing matrix (fixedGaps=None, a file that does not exist).
NoMatrix == <<>>

Matrices(n) == [Idx(n) -> [Idx(n) -> {0, 1}]]

\* data.columns: a sequence of distinct names; names are integers.
Columns(n) == {c \in [Idx(n) -> 1 .. n] : \A i, j \in Idx(n) : c[i] = c[j] => i = j}

NameSet(c) == {c[i] : i \in DOMAIN c}

\* Node orders (insertion orders) of a graph over the names of c.
NodeOrders(c) == {o \in [DOMAIN c -> NameSet(c)] : \A i, j \in DOMAIN c : o[i] = o[j] => i = j}

\* networkx.Graph: nodes in insertion order, edges as unordered pairs
\* ({a} is a self-loop at a).
NoGraph == [nodes |-> <<>>, edges |-> {}]

UndirectedEdges(names) == {{a, b} : a \in names, b \in names}

UndirectedGraphs(c) == [nodes : NodeOrders(c), edges : SUBSET UndirectedEdges(NameSet(c))]

\* networkx.DiGraph: nodes in insertion order, edges as ordered pairs.
NoDiGraph == [nodes |-> <<>>, edges |-> {}]

DirectedGraphs(c) == [nodes : NodeOrders(c), edges : SUBSET (NameSet(c) \X NameSet(c))]

\* The directed graph returned to the caller: a node set and an edge set.
NoResultGraph == [nodes |-> {}, edges |-> {}]

\* ------------------------------------------------------------ exceptions

\* An exception object: its type, its message, and where it was created.
NoExc == [type |-> "", msg |-> "", site |-> ""]

\* Ordinary errors (subclasses of Exception) the callees of the try body raise.
Errors == {[type |-> "OSError", msg |-> "disk full", site |-> "callee"], [type |-> "RuntimeError", msg |-> "R failed", site |-> "callee"]}

\* Cancellations raised inside the try body: a signal's bare KeyboardInterrupt,
\* or one a callee raises with a message.
Interrupts == {[type |-> "KeyboardInterrupt", msg |-> "", site |-> "signal"], [type |-> "KeyboardInterrupt", msg |-> "stop", site |-> "callee"]}

IsInterrupt(e) == e.type = "KeyboardInterrupt"

\* ------------------------------------------------------ GIES.__init__

\* self.scores
scores == [obs |-> "GaussL0penObsScore", int |-> "GaussL0penIntScore"]

\* What a caller may pass as score: the two keys and an unrecognized one.
ScoreSelectors == {"obs", "int", "bic"}

\* self.arguments as the constructor leaves it.
InitArguments == [FOLDER |-> 0, FILE |-> "data.csv", SKELETON |-> "FALSE", GAPS |-> "fixedgaps.csv", SCORE |-> "GaussL0penObsScore", VERBOSE |-> "FALSE", OUTPUT |-> "result.csv"]

\* str(self.verbose).upper()
BoolStr(b) == IF b THEN "TRUE" ELSE "FALSE"

\* A lookup that falls back to the default score instead of failing
\* (self.scores.get(self.score, ...)).
LookupScoreDefault(s) == [ok |-> TRUE, name |-> IF s \in DOMAIN scores THEN scores[s] ELSE "GaussL0penObsScore"]

\* self.scores[self.score]: found, or KeyError.
LookupScore(s) == IF s \in DOMAIN scores THEN [ok |-> TRUE, name |-> scores[s]] ELSE [ok |-> FALSE, name |-> ""]

KeyError(s) == [type |-> "KeyError", msg |-> s, site |-> "lookup"]

\* --------------------------------------------------- skeleton -> fixedGaps

\* A conversion that keeps only the edges present in both directions
\* (graph.to_undirected(reciprocal=True)).
ToUndirectedReciprocal(d) == [nodes |-> d.nodes, edges |-> {{e[1], e[2]} : e \in {x \in d.edges : <<x[2], x[1]>> \in d.edges}}]

\* nx.Graph(graph) of a DiGraph: same nodes in the same order, one
\* undirected edge for every directed edge.
ToUndirected(d) == [nodes |-> d.nodes, edges |-> {{e[1], e[2]} : e \in d.edges}]

\* nx.adj_matrix(graph, weight=None).todense(): rows and columns follow
\* list(graph), the graph's own node order.
AdjMatrix(g) == [i \in DOMAIN g.nodes |-> [j \in DOMAIN g.nodes |-> IF {g.nodes[i], g.nodes[j]} \in g.edges THEN 1 ELSE 0]]

\* The adjacency matrix written as it is, not complemented.
ComplementForgotten(m) == m

\* 1 - fe.values

Complement(m) == [i \in DOMAIN m |-> [j \in DOMAIN m[i] |-> 1 - m[i][j]]]

\* fg of orient_undirected_graph
FixedGaps(g) == Complement(AdjMatrix(g))

\* ------------------------------------------------------- result -> graph

\* A graph built from the non-zero entries alone: isolated nodes are lost.
DiGraphOfEdgesOnly(m) == [nodes |-> {i \in DOMAIN m : \E j \in DOMAIN m : m[i][j] # 0 \/ m[j][i] # 0}, edges |-> {e \in (DOMAIN m) \X (DOMAIN m) : m[e[1]][e[2]] # 0}]

\* A graph that reads the matrix transposed: an edge j -> i for entry (i,j).
DiGraphOfTransposed(m) == [nodes |-> DOMAIN m, edges |-> {e \in (DOMAIN m) \X (DOMAIN m) : m[e[2]][e[1]] # 0}]

\* nx.DiGraph(results) of an N x N array: nodes 0..N-1, an edge i -> j
\* for every non-zero entry.
DiGraphOf(m) == [nodes |-> DOMAIN m, edges |-> {e \in (DOMAIN m) \X (DOMAIN m) : m[e[1]][e[2]] # 0}]

\* {idx: i for idx, i in enumerate(data.columns)}
EnumerateColumns(c) == c

\* mapping.get(n, n)
MapNode(mapping, n) == IF n \in DOMAIN mapping THEN mapping[n] ELSE n

\* nx.relabel_nodes(G, mapping), copy=True
RelabelNodes(g, mapping) == [nodes |-> {MapNode(mapping, n) : n \in g.nodes}, edges |-> {<<MapNode(mapping, e[1]), MapNode(mapping, e[2])>> : e \in g.edges}]

\* ------------------------------------------------------------ filesystem

\* A workspace directory: absent, or holding up to three files.  data.csv
\* is written without header and index, so it keeps the number of fields
\* per row and none of the column names (0: no file).
NoDir == [exists |-> FALSE, data |-> 0, gaps |-> NoMatrix, result |-> NoMatrix]

EmptyDir == [exists |-> TRUE, data |-> 0, gaps |-> NoMatrix, result |-> NoMatrix]

\* data.to_csv(..., header=False, index=False)
DataFile(c) == Width(c)

\* rmtree(path)
Rmtree(files, id) == [files EXCEPT ![id] = NoDir]

\* ---------------------------------------------------------------- frames

\* One call's inputs: the entry point, data.columns and the skeleton.
Input(entry, c, g, d) == [entry |-> entry, columns |-> c, graph |-> g, dgraph |-> d]

InputsOver(c) == {Input("create", c, NoGraph, NoDiGraph)} \cup {Input("undirected", c, g, NoDiGraph) : g \in UndirectedGraphs(c)} \cup {Input("directed", c, NoGraph, d) : d \in DirectedGraphs(c)}

\* Every dataset of 1..MaxCols columns with every skeleton over its columns.
AllInputs == UNION {InputsOver(c) : c \in UNION {Columns(n) : n \in 1 .. MaxCols}}

\* The inputs of the specifications that follow several calls: a dataset
\* of one column, with no skeleton and with every skeleton over it.
SampleInputs == UNION {InputsOver(c) : c \in Columns(1)}

IdleFrame == [obj |-> 1, entry |-> "", columns |-> <<>>, graph |-> NoGraph, dgraph |-> NoDiGraph, fixedGaps |-> NoMatrix, id |-> 0, exc |-> NoExc, script |-> InitArguments, result |-> NoMatrix, raised |-> NoExc, via |-> "", ret |-> NoResultGraph, w0 |-> 0, sk0 |-> "FALSE"]

\* w0 and sk0 remember the number of warnings and the value of {SKELETON}
\* at the moment of the call.
NewFrame(o, in, w, sk) == [IdleFrame EXCEPT !.obj = o, !.entry = in.entry, !.columns = in.columns, !.graph = in.graph, !.dgraph = in.dgraph, !.w0 = w, !.sk0 = sk]

\* Positions inside the try block of _run_gies.
TryPcs == {"writedata", "writegaps", "launch", "wait"}

\* Positions of a call in progress outside the try block.
OutsideTryPcs == {"directed", "setup", "mkdir", "setfolder", "except", "cleanup", "relabel"}

\* ------------------------------------------------------------------ Init

\* The state right after construction, the objects' score and verbosity aside.
InitRest == /\ arguments = [o \in Objects |-> InitArguments]
            /\ fs = [i \in 1 .. MaxCalls |-> NoDir]
            /\ nextId = 0
            /\ ncalls = 0
            /\ warnings = 0
            /\ pc = [t \in Threads |-> "idle"]
            /\ frame = [t \in Threads |-> IdleFrame]

\* GIES(score, verbose): the score is stored without validation.  Object 1
\* is built with any score and verbosity, object 2 with the defaults.
Init == /\ score \in {s \in [Objects -> ScoreSelectors] : s[2] = "obs"}
        /\ verbose \in {v \in [Objects -> BOOLEAN] : v[2] = FALSE}
        /\ InitRest

\* GIES() with the default arguments score='obs', verbose=False.
InitDefault == /\ score = [o \in Objects |-> "obs"]
               /\ verbose = [o \in Objects |-> FALSE]
               /\ InitRest

\* Two objects with recognized scores.
InitConc == /\ score \in [Objects -> {"obs", "int"}]
            /\ verbose = [o \in Objects |-> FALSE]
            /\ InitRest

\* --------------------------------------------------------------- actions

\* obj.score = s between calls.
SetScore(o, s) == /\ \A t \in Threads : pc[t] \in {"idle", "done"}
                  /\ s # score[o]
                  /\ score' = [score EXCEPT ![o] = s]
                  /\ UNCHANGED <<verbose, arguments, fs, nextId, ncalls, warnings, pc, frame>>

\* Thread t enters one of the three entry points on object o.
Call(t, o, in) == /\ pc[t] \in {"idle", "done"}
                  /\ ncalls < MaxCalls
                  /\ ncalls' = ncalls + 1
                  /\ frame' = [frame EXCEPT ![t] = NewFrame(o, in, warnings, arguments[o].SKELETON)]
                  /\ pc' = [pc EXCEPT ![t] = IF in.entry = "directed" THEN "directed" ELSE "setup"]
                  /\ UNCHANGED <<score, verbose, arguments, fs, nextId, warnings>>

\* orient_directed_graph: warn, then continue as orient_undirected_graph
\* with nx.Graph(graph).
OrientDirected(t) == /\ pc[t] = "directed"
                     /\ warnings' = warnings + 1
                     /\ frame' = [frame EXCEPT ![t].graph = ToUndirected(frame[t].dgraph)]
                     /\ pc' = [pc EXCEPT ![t] = "setup"]
                     /\ UNCHANGED <<score, verbose, arguments, fs, nextId, ncalls>>

\* The lines before the call of _run_gies: {VERBOSE} and {SCORE} are set
\* (orient_undirected_graph sets {VERBOSE} first, create_graph_from_data
\* looks the score up first), then fg is computed.  A score that is no key
\* of self.scores ends the call with KeyError.
Setup(t) == /\ pc[t] = "setup"
            /\ LET o == frame[t].obj
                   look == LookupScore(score[o])
                   vset == [arguments[o] EXCEPT !.VERBOSE = BoolStr(verbose[o])]
               IN IF look.ok
                  THEN /\ arguments' = [arguments EXCEPT ![o] = [vset EXCEPT !.SCORE = look.name]]
                       /\ frame' = [frame EXCEPT ![t].fixedGaps = IF frame[t].entry = "create" THEN NoMatrix ELSE FixedGaps(frame[t].graph)]
                       /\ pc' = [pc EXCEPT ![t] = "mkdir"]
                  ELSE /\ arguments' = [arguments EXCEPT ![o] = IF frame[t].entry = "create" THEN arguments[o] ELSE vset]
                       /\ frame' = [frame EXCEPT ![t].raised = KeyError(score[o]), ![t].via = "direct"]
                       /\ pc' = [pc EXCEPT ![t] = "done"]
            /\ UNCHANGED <<score, verbose, fs, nextId, ncalls, warnings>>

\* id = str(uuid.uuid4()); os.makedirs(...): a fresh directory.
Mkdir(t) == /\ pc[t] = "mkdir"
            /\ nextId' = nextId + 1
            /\ fs' = [fs EXCEPT ![nextId + 1] = EmptyDir]
            /\ frame' = [frame EXCEPT ![t].id = nextId + 1]
            /\ pc' = [pc EXCEPT ![t] = "setfolder"]
            /\ UNCHANGED <<score, verbose, arguments, ncalls, warnings>>

\* os.makedirs raises: nothing was created, the error is not caught.
MkdirFail(t, e) == /\ pc[t] = "mkdir"
                   /\ frame' = [frame EXCEPT ![t].raised = e, ![t].via = "direct"]
                   /\ pc' = [pc EXCEPT ![t] = "done"]
                   /\ UNCHANGED <<score, verbose, arguments, fs, nextId, ncalls, warnings>>

\* self.arguments['{FOLDER}'] = ..., before the try block.
SetFolder(t) == /\ pc[t] = "setfolder"
                /\ arguments' = [arguments EXCEPT ![frame[t].obj].FOLDER = frame[t].id]
                /\ pc' = [pc EXCEPT ![t] = "writedata"]
                /\ UNCHANGED <<score, verbose, fs, nextId, ncalls, warnings, frame>>

\* data.to_csv(...)
WriteData(t) == /\ pc[t] = "writedata"
                /\ fs' = [fs EXCEPT ![frame[t].id].data = DataFile(frame[t].columns)]
                /\ pc' = [pc EXCEPT ![t] = "writegaps"]
                /\ UNCHANGED <<score, verbose, arguments, nextId, ncalls, warnings, frame>>

\* An if without the else branch: {SKELETON} keeps its old value when no
\* fixedGaps is given.
SkeletonFlagStale(fixedGaps, old) == IF fixedGaps # NoMatrix THEN "TRUE" ELSE old

\* The value of {SKELETON} after the if/else on fixedGaps.
SkeletonFlag(fixedGaps, old) == IF fixedGaps # NoMatrix THEN "TRUE" ELSE "FALSE"

\* if fixedGaps is not None: write it and set {SKELETON}; else clear it.
WriteGaps(t) == /\ pc[t] = "writegaps"
                /\ fs' = [fs EXCEPT ![frame[t].id].gaps = frame[t].fixedGaps]
                /\ arguments' = [arguments EXCEPT ![frame[t].obj].SKELETON = SkeletonFlag(frame[t].fixedGaps, @)]
                /\ pc' = [pc EXCEPT ![t] = "launch"]
                /\ UNCHANGED <<score, verbose, nextId, ncalls, warnings, frame>>

\* launch_R_script substitutes the argument table into the script and
\* starts it.  The skeleton and fixedGaps are not read after this point.
Launch(t) == /\ pc[t] = "launch"
             /\ frame' = [frame EXCEPT ![t].script = arguments[frame[t].obj], ![t].graph = NoGraph, ![t].dgraph = NoDiGraph, ![t].fixedGaps = NoMatrix]
             /\ pc' = [pc EXCEPT ![t] = "wait"]
             /\ UNCHANGED <<score, verbose, arguments, fs, nextId, ncalls, warnings>>

\* The script finds the input files its argument table names.
ScriptCanRun(a) == /\ a.FOLDER \in DOMAIN fs
                   /\ fs[a.FOLDER].exists
                   /\ fs[a.FOLDER].data # 0
                   /\ a.SKELETON = "TRUE" => fs[a.FOLDER].gaps # NoMatrix

FileNotFound == [type |-> "FileNotFoundError", msg |-> "result.csv", site |-> "read_csv"]

\* After the script (which wrote the files in `files`), retrieve_result
\* reads result.csv of this call's own workspace.
Retrieve(t, files) == /\ fs' = files
                      /\ IF files[frame[t].id].result # NoMatrix
                         THEN /\ frame' = [frame EXCEPT ![t].result = files[frame[t].id].result]
                              /\ pc' = [pc EXCEPT ![t] = "cleanup"]
                         ELSE /\ frame' = [frame EXCEPT ![t].exc = FileNotFound]
                              /\ pc' = [pc EXCEPT ![t] = "except"]

\* The script ends: it writes {FOLDER}{OUTPUT}, any adjacency matrix over
\* the columns of the data file it read, when it found its inputs.
Finish(t) == /\ pc[t] = "wait"
             /\ LET a == frame[t].script
                IN IF ScriptCanRun(a)
                   THEN \E m \in Matrices(fs[a.FOLDER].data) : Retrieve(t, [fs EXCEPT ![a.FOLDER].result = m])
                   ELSE Retrieve(t, fs)
             /\ UNCHANGED <<score, verbose, arguments, nextId, ncalls, warnings>>

\* A statement of the try body raises e (to_csv is not called at
\* "writegaps" when fixedGaps is None).
Fail(t, e) == /\ pc[t] \in TryPcs
              /\ (pc[t] = "writegaps" /\ frame[t].fixedGaps = NoMatrix) => IsInterrupt(e)
              /\ frame' = [frame EXCEPT ![t].exc = e]
              /\ pc' = [pc EXCEPT ![t] = "except"]
              /\ UNCHANGED <<score, verbose, arguments, fs, nextId, ncalls, warnings>>

\* What the two handlers raise: `raise e`, and `raise KeyboardInterrupt`.
Reraise(e) == IF IsInterrupt(e) THEN [type |-> "KeyboardInterrupt", msg |-> "", site |-> "handler"] ELSE e

\* except Exception / except KeyboardInterrupt: rmtree, then raise.
Except(t) == /\ pc[t] = "except"
             /\ fs' = Rmtree(fs, frame[t].id)
             /\ frame' = [frame EXCEPT ![t].raised = Reraise(frame[t].exc), ![t].via = "handler"]
             /\ pc' = [pc EXCEPT ![t] = "done"]
             /\ UNCHANGED <<score, verbose, arguments, nextId, ncalls, warnings>>

\* rmtree after the try block.
Cleanup(t) == /\ pc[t] = "cleanup"
              /\ fs' = Rmtree(fs, frame[t].id)
              /\ pc' = [pc EXCEPT ![t] = "relabel"]
              /\ UNCHANGED <<score, verbose, arguments, nextId, ncalls, warnings, frame>>

\* return nx.relabel_nodes(nx.DiGraph(results), {idx: i ...})
Relabel(t) == /\ pc[t] = "relabel"
              /\ frame' = [frame EXCEPT ![t].ret = RelabelNodes(DiGraphOf(frame[t].result), EnumerateColumns(frame[t].columns))]
              /\ pc' = [pc EXCEPT ![t] = "done"]
              /\ UNCHANGED <<score, verbose, arguments, fs, nextId, ncalls, warnings>>

\* KeyboardInterrupt delivered while the call is outside the try block
\* (inside it, Fail covers it): no handler is active, it propagates.
Interrupt(t) == /\ pc[t] \in OutsideTryPcs
                /\ frame' = [frame EXCEPT ![t].raised = [type |-> "KeyboardInterrupt", msg |-> "", site |-> "signal"], ![t].via = "direct"]
                /\ pc' = [pc EXCEPT ![t] = "done"]
                /\ UNCHANGED <<score, verbose, arguments, fs, nextId, ncalls, warnings>>

\* The steps of a call in progress on its way to a result.
Advance(t) == \/ OrientDirected(t)
              \/ Setup(t)
              \/ Mkdir(t)
              \/ SetFolder(t)
              \/ WriteData(t)
              \/ WriteGaps(t)
              \/ Launch(t)
              \/ Finish(t)
              \/ Cleanup(t)
              \/ Relabel(t)

\* -------------------------------------------------------- specifications

\* The main thread and one object: calls one after the other, the score
\* changed between calls, failures and interrupts.
Next == \E t \in MainThreads : \/ \E in \in SampleInputs : Call(t, 1, in)
                               \/ \E s \in ScoreSelectors : SetScore(1, s)
                               \/ Advance(t)
                               \/ Except(t)
                               \/ \E e \in Errors : MkdirFail(t, e)
                               \/ \E e \in Errors \cup Interrupts : Fail(t, e)
                               \/ Interrupt(t)

Spec == Init /\ [][Next]_vars

\* One call on a default object, over every dataset and skeleton, with no
\* failure.
NextOne == \E t \in MainThreads : \/ ncalls = 0 /\ \E in \in AllInputs : Call(t, 1, in)
                                  \/ Advance(t)

SpecOne == InitDefault /\ [][NextOne]_vars

\* Two threads calling concurrently, on the same object or on two.
NextConc == \E t \in Threads : \/ \E o \in Objects, in \in SampleInputs : Call(t, o, in)
                               \/ Advance(t)
                               \/ Except(t)

SpecConc == InitConc /\ [][NextConc]_vars

\* ---------------------------------------------------------------- claims

\* Thread t's call has ended.
Ended(t) == pc[t] = "done"

\* Thread t's call has returned a graph.
Returned(t) == pc[t] = "done" /\ frame[t].raised = NoExc

\* C1: when a call that created its workspace returns or raises, the
\* workspace directory no longer exists; when the creation itself failed
\* no directory was made.
C1_WorkspaceGoneAtExit ==
    \A t \in Threads :
        Ended(t) =>
            IF frame[t].id # 0
            THEN ~fs[frame[t].id].exists
            ELSE \A i \in DOMAIN fs : (i > nextId) => ~fs[i].exists

\* C2: when a failure raised inside the try block (data write, fixed-gaps
\* write, external run) has been handled, the workspace is gone and the
\* caller observes the failure that was raised: same type, same message.
C2_OriginalFailureObserved ==
    \A t \in Threads :
        (Ended(t) /\ frame[t].via = "handler") =>
            /\ ~fs[frame[t].id].exists
            /\ frame[t].raised.type = frame[t].exc.type
            /\ frame[t].raised.msg = frame[t].exc.msg

\* C3: under every interleaving of concurrent calls, two calls in progress
\* have distinct workspaces, a call's script is launched with {FOLDER}
\* naming its own workspace and {SKELETON} telling whether this call was
\* given a fixed-gaps matrix, and the call gets the result of its own
\* workspace.
C3_ConcurrentCallsIsolated ==
    /\ \A t, u \in Threads :
           (t # u /\ frame[t].id # 0 /\ frame[u].id # 0) => (frame[t].id # frame[u].id)
    /\ \A t \in Threads :
           (pc[t] = "wait") =>
               /\ frame[t].script.FOLDER = frame[t].id
               /\ (frame[t].script.SKELETON = "TRUE") <=> (frame[t].entry # "create")
    /\ \A t \in Threads :
           (Ended(t) /\ frame[t].via = "handler") => (frame[t].exc.type # "FileNotFoundError")

\* C4: in any sequence of calls on one object, the script is launched with
\* {SCORE} the score-function name of the object's current selector, and
\* {SKELETON} "TRUE" exactly when this call was given (and wrote) a
\* fixed-gaps matrix, whatever earlier calls left in the table.
C4_ScoreAndSkeletonAtLaunch ==
    \A t \in Threads :
        (pc[t] = "wait") =>
            /\ \/ (score[frame[t].obj] = "obs" /\ frame[t].script.SCORE = "GaussL0penObsScore")
               \/ (score[frame[t].obj] = "int" /\ frame[t].script.SCORE = "GaussL0penIntScore")
            /\ frame[t].script.SKELETON \in {"TRUE", "FALSE"}
            /\ (frame[t].script.SKELETON = "TRUE") <=> (frame[t].entry # "create")
            /\ (frame[t].script.SKELETON = "TRUE") <=> (fs[frame[t].id].gaps # NoMatrix)

\* A call without skeleton is launched with "FALSE" and the interventional
\* score although the table held "TRUE" when the call began.
C4_Witness ==
    \E t \in Threads :
        /\ pc[t] = "wait"
        /\ frame[t].entry = "create"
        /\ frame[t].sk0 = "TRUE"
        /\ frame[t].script.SKELETON = "FALSE"
        /\ frame[t].script.SCORE = "GaussL0penIntScore"

\* C5: the fixed-gaps file follows the dataset's column order: entry (i,j)
\* is 0 exactly when the skeleton has an edge between dataset columns i
\* and j, whatever the order the skeleton's nodes were inserted in.
C5_GapsFollowColumnOrder ==
    \A t \in Threads :
        (pc[t] = "launch" /\ frame[t].entry = "undirected") =>
            LET m == fs[frame[t].id].gaps
                c == frame[t].columns
            IN /\ DOMAIN m = DOMAIN c
               /\ \A i, j \in DOMAIN c : (m[i][j] = 0) <=> ({c[i], c[j]} \in frame[t].graph.edges)

\* C6: the fixed-gaps file is the 0/1 complement of the skeleton's
\* adjacency matrix (indices are positions in the skeleton's node list):
\* off the diagonal an entry is 0 iff the two nodes are joined and 1
\* otherwise, symmetrically; on the diagonal it is 0 iff the node has a
\* self-loop.
C6_GapsAreComplement ==
    \A t \in Threads :
        (pc[t] = "launch" /\ frame[t].entry = "undirected") =>
            LET m == fs[frame[t].id].gaps
                n == frame[t].graph.nodes
            IN /\ DOMAIN m = DOMAIN n
               /\ \A i, j \in DOMAIN n :
                      /\ m[i][j] \in {0, 1}
                      /\ m[i][j] = m[j][i]
                      /\ (m[i][j] = 0) <=> ({n[i], n[j]} \in frame[t].graph.edges)

\* A written matrix with an edge, a self-loop and a node without self-loop.
C6_Witness ==
    \E t \in Threads :
        /\ pc[t] = "launch"
        /\ frame[t].entry = "undirected"
        /\ LET m == fs[frame[t].id].gaps
           IN /\ \E i, j \in DOMAIN m : i # j /\ m[i][j] = 0
              /\ \E i \in DOMAIN m : m[i][i] = 0
              /\ \E i \in DOMAIN m : m[i][i] = 1

\* The argument table an undirected-skeleton call on object o has set by
\* the time its script is launched, the folder aside.
C7_TableMatches(o) ==
    /\ arguments[o].SKELETON = "TRUE"
    /\ arguments[o].VERBOSE = (IF verbose[o] THEN "TRUE" ELSE "FALSE")
    /\ arguments[o].SCORE = (IF score[o] = "int" THEN "GaussL0penIntScore" ELSE "GaussL0penObsScore")
    /\ arguments[o].FILE = "data.csv"
    /\ arguments[o].GAPS = "fixedgaps.csv"
    /\ arguments[o].OUTPUT = "result.csv"

\* C7: a call with a directed skeleton emits exactly one warning (the other
\* entry points none) and its workspace holds what a call with the
\* corresponding undirected skeleton writes: the same data file, the
\* fixed-gaps matrix with 0 wherever the directed skeleton has an edge in
\* either direction (node order kept), no result yet, and the same
\* argument table.
C7_DirectedAsUndirected ==
    \A t \in Threads :
        /\ (pc[t] \notin {"idle", "directed"}) =>
               (warnings - frame[t].w0 = (IF frame[t].entry = "directed" THEN 1 ELSE 0))
        /\ (pc[t] = "launch" /\ frame[t].entry = "directed") =>
               LET d == frame[t].dgraph
                   dir == fs[frame[t].id]
               IN /\ dir.exists
                  /\ dir.data = Cardinality(DOMAIN frame[t].columns)
                  /\ dir.result = NoMatrix
                  /\ DOMAIN dir.gaps = DOMAIN d.nodes
                  /\ \A i, j \in DOMAIN d.nodes :
                         dir.gaps[i][j] = (IF <<d.nodes[i], d.nodes[j]>> \in d.edges \/ <<d.nodes[j], d.nodes[i]>> \in d.edges THEN 0 ELSE 1)
                  /\ C7_TableMatches(frame[t].obj)

\* A directed skeleton with a one-way edge between two nodes has been
\* written, after one warning.
C7_Witness ==
    \E t \in Threads :
        /\ pc[t] = "launch"
        /\ frame[t].entry = "directed"
        /\ warnings = 1
        /\ \E e \in frame[t].dgraph.edges : e[1] # e[2] /\ <<e[2], e[1]>> \notin frame[t].dgraph.edges

\* C8: the returned graph's node set is exactly the set of the dataset's
\* column names, N of them, whatever matrix the script returned.
C8_NodesAreColumns ==
    \A t \in Threads :
        Returned(t) =>
            /\ frame[t].ret.nodes = {frame[t].columns[i] : i \in DOMAIN frame[t].columns}
            /\ Cardinality(frame[t].ret.nodes) = Cardinality(DOMAIN frame[t].columns)

\* A skeleton call over several columns returned a graph for a matrix
\* without edges.
C8_Witness ==
    \E t \in Threads :
        /\ Returned(t)
        /\ frame[t].entry = "undirected"
        /\ Cardinality(DOMAIN frame[t].columns) > 1
        /\ \A i, j \in DOMAIN frame[t].result : frame[t].result[i][j] = 0

\* C9: relabelling is positional: the returned graph has an edge from
\* column i's name to column j's name iff entry (i,j) of the result matrix
\* is non-zero.
C9_RelabelIsPositional ==
    \A t \in Threads :
        Returned(t) =>
            LET c == frame[t].columns
            IN /\ DOMAIN frame[t].result = DOMAIN c
               /\ \A i, j \in DOMAIN c : (<<c[i], c[j]>> \in frame[t].ret.edges) <=> (frame[t].result[i][j] # 0)
               /\ \A e \in frame[t].ret.edges : \E i, j \in DOMAIN c : e = <<c[i], c[j]>>

\* A one-way edge was returned for a dataset in which a column's name is
\* another column's index.
C9_Witness ==
    \E t \in Threads :
        /\ Returned(t)
        /\ \E i, j \in DOMAIN frame[t].result : frame[t].result[i][j] = 1 /\ frame[t].result[j][i] = 0
        /\ \E k \in DOMAIN frame[t].columns : frame[t].columns[k] \in DOMAIN frame[t].columns /\ frame[t].columns[k] # k

\* C10: an unrecognized score is accepted by the constructor; a call on
\* such an object gets no further than the lookup, and the KeyError it
\* ends with comes before any workspace is created or script launched.
C10_UnknownScoreFailsEarly ==
    \A t \in Threads :
        /\ (pc[t] \notin {"idle", "done", "directed", "setup"}) => (score[frame[t].obj] \in {"obs", "int"})
        /\ (Ended(t) /\ frame[t].raised.type = "KeyError") =>
               /\ frame[t].id = 0
               /\ frame[t].script.FOLDER = 0
               /\ frame[t].via = "direct"
               /\ frame[t].raised.msg \notin {"obs", "int"}
               /\ \A i \in DOMAIN fs : (i > nextId) => ~fs[i].exists

\* A directed-skeleton call on an object built with an unrecognized score
\* ended with KeyError, after its warning.
C10_Witness ==
    \E t \in Threads :
        /\ Ended(t)
        /\ frame[t].raised.type = "KeyError"
        /\ frame[t].raised.msg = "bic"
        /\ frame[t].entry = "directed"
        /\ nextId = 0

====
